---- MODULE Spec2Model ----
(***************************************************************************)
(* AAA configuration actioner (CLI/actioner/sonic_cli_aaa.py).             *)
(*                                                                         *)
(* One process invocation runs one handler of class Handlers; a behaviour  *)
(* is one invocation, since invocations share no state.  The state is      *)
(* what an invocation leaves behind for an observer: the REST calls it     *)
(* issued through ApiClient, the lines it printed, the calls it made to    *)
(* show_cli_output, and the status it returned (or the exception it        *)
(* raised).  The transport is the environment: it answers the call of an   *)
(* invocation with a response chosen nondeterministically.                 *)
(*                                                                         *)
(* Python strings that the code inspects character by character (strip,    *)
(* join, format) are sequences of one-character strings.  REST paths and   *)
(* dictionary keys are only ever built and passed on, and are TLA+         *)
(* strings.  Python dicts are functions from keys to values.               *)
(***************************************************************************)
EXTENDS Integers, Sequences, FiniteSets, TLC

VARIABLES
    func,       \* name of the handler looked up by the last invocation
    args,       \* positional arguments of the last invocation
    resp,       \* the response the transport gave (or would have given)
    calls,      \* REST calls issued by the last invocation, in order
    stdout,     \* lines printed by the last invocation, in order
    rendered,   \* show_cli_output calls of the last invocation, in order
    status,     \* value returned by the handler, NoStatus if none
    raised,     \* exception that left the handler, "none" if none
    returned,   \* list returned by a direct call of methods_to_list
    exit_code,  \* exit status of the process run as __main__, NoStatus before
    pc,         \* "ready": nothing called yet; "exited": the call is over
    store,      \* the REST store: attribute path -> <<>> or <<value>>
    ops,        \* number of invocations made against the store
    prev        \* handler and status of the invocation before the last one

vars ==
    <<func, args, resp, calls, stdout, rendered, status, raised, returned,
      exit_code, pc, store, ops, prev>>

-----------------------------------------------------------------------------
(* String literals of the program and of its inputs, as character sequences *)

S_enable ==
    <<"e", "n", "a", "b", "l", "e">>
S_disable ==
    <<"d", "i", "s", "a", "b", "l", "e">>
S_default ==
    <<"d", "e", "f", "a", "u", "l", "t">>
S_Enable ==
    <<"E", "n", "a", "b", "l", "e">>
S_garbage ==
    <<"g", "a", "r", "b", "a", "g", "e">>
S_tacacs ==
    <<"t", "a", "c", "a", "c", "s", "+">>
S_local ==
    <<"l", "o", "c", "a", "l">>
S_padded_local ==
    <<" ", "l", "o", "c", "a", "l", " ">>
S_extra ==
    <<"x">>
S_template ==
    <<"s", "h", "o", "w", "_", "a", "a", "a", ".", "j", "2">>
S_template2 ==
    <<"s", "h", "o", "w", "_", "t", "a", "c", "a", "c", "s", ".", "j", "2">>
S_True ==
    <<"T", "r", "u", "e">>
S_False ==
    <<"F", "a", "l", "s", "e">>
S_comma ==
    <<",">>
S_local_default ==
    <<"l", "o", "c", "a", "l", " ", "(", "d", "e", "f", "a", "u", "l", "t", ")">>
S_False_default ==
    <<"F", "a", "l", "s", "e", " ", "(", "d", "e", "f", "a", "u", "l", "t", ")">>
S_disable_default ==
    <<"d", "i", "s", "a", "b", "l", "e", " ", "(", "d", "e", "f", "a", "u", "l", "t", ")">>
S_Invalid_option ==
    <<"I", "n", "v", "a", "l", "i", "d", " ", "o", "p", "t", "i", "o", "n", ":", " ">>
S_authentication_required ==
    <<"A", "t", " ", "l", "e", "a", "s", "t", " ", "o", "n", "e", " ", "a", "u", "t", "h", "e", "n", "t", "i", "c", "a", "t", "i", "o", "n", " ", "m", "e", "t", "h", "o", "d", " ", "i", "s", " ", "r", "e", "q", "u", "i", "r", "e", "d">>
S_authorization_required ==
    <<"A", "t", " ", "l", "e", "a", "s", "t", " ", "o", "n", "e", " ", "a", "u", "t", "h", "o", "r", "i", "z", "a", "t", "i", "o", "n", " ", "m", "e", "t", "h", "o", "d", " ", "i", "s", " ", "r", "e", "q", "u", "i", "r", "e", "d">>
S_accounting_required ==
    <<"A", "t", " ", "l", "e", "a", "s", "t", " ", "o", "n", "e", " ", "a", "c", "c", "o", "u", "n", "t", "i", "n", "g", " ", "m", "e", "t", "h", "o", "d", " ", "i", "s", " ", "r", "e", "q", "u", "i", "r", "e", "d">>
S_Test_error ==
    <<"T", "e", "s", "t", " ", "e", "r", "r", "o", "r">>
S_timeout ==
    <<"t", "i", "m", "e", "o", "u", "t">>

\* Python's None where a string argument is expected: a value that is no
\* character sequence (its only element is not a character).
None ==
    <<"None">>

\* Python's None as resp.content: a value that is no dict.
NoContent ==
    [None |-> TRUE]

\* The empty dict {}.
EmptyDict ==
    <<>>

\* str.strip() removes these from both ends (ASCII whitespace).
Whitespace ==
    {" ", "\t", "\n", "\r", "\f"}

-----------------------------------------------------------------------------
(* Bounds of the explored inputs *)

\* longest whitespace-only argument
MaxBlank ==
    2

\* most positional arguments beyond those a handler names
MaxExtra ==
    1

\* longest method list in a GET response
MaxRespList ==
    2

-----------------------------------------------------------------------------
(* Helpers *)

AAA_PATH ==
    "/restconf/data/openconfig-system:system/aaa"

\* Path.join of the transport client: the sub-path appended as further
\* segments of the path
Path_join(p, subpath) ==
    p \o "/" \o subpath

\* Path(AAA_PATH).join(subpath) when subpath is truthy, Path(AAA_PATH) else
aaa_path(subpath) ==
    IF subpath # ""
    THEN Path_join(AAA_PATH, subpath)
    ELSE AAA_PATH

\* mutant: the failure is neither printed nor reported
check_ok_blind(r) ==
    [stdout |-> <<>>, ret |-> 0]

\* what check_ok prints and returns for a response
check_ok(r) ==
    IF ~r.ok
    THEN [stdout |-> <<r.error_message>>, ret |-> 1]
    ELSE [stdout |-> <<>>, ret |-> 0]

\* option_to_bool returns True, False or None; the result is <<TRUE>>,
\* <<FALSE>> or NoMapping (for None), so that "val is None" is an equality
\* between values of one kind.
NoMapping ==
    <<>>

\* mutant: the two literals exchanged
option_to_bool_swapped(option) ==
    IF option = S_enable THEN <<FALSE>>
    ELSE IF option = S_disable THEN <<TRUE>>
    ELSE NoMapping

\* mutant: "return option == 'enable'", no value is unmapped
option_to_bool_total(option) ==
    IF option = S_enable THEN <<TRUE>> ELSE <<FALSE>>

option_to_bool(option) ==
    IF option = S_enable THEN <<TRUE>>
    ELSE IF option = S_disable THEN <<FALSE>>
    ELSE NoMapping

\* truth value of a string-or-None argument: None and "" are falsy
Truthy(s) ==
    s # None /\ s # <<>>

RECURSIVE lstrip(_)
lstrip(s) ==
    IF s # <<>> /\ Head(s) \in Whitespace THEN lstrip(Tail(s)) ELSE s

RECURSIVE rstrip(_)
rstrip(s) ==
    IF s # <<>> /\ s[Len(s)] \in Whitespace
    THEN rstrip(SubSeq(s, 1, Len(s) - 1))
    ELSE s

\* str.strip()
strip(s) ==
    rstrip(lstrip(s))

\* mutant: the strip() tests dropped, whitespace-only arguments are kept
methods_to_list_unstripped(method1, method2) ==
    LET first == IF Truthy(method1) THEN <<method1>> ELSE <<>>
        second == IF Truthy(method2) THEN <<method2>> ELSE <<>>
    IN first \o second

\* mutant: the second candidate is appended before the first
methods_to_list_reversed(method1, method2) ==
    LET first == IF Truthy(method1) /\ Truthy(strip(method1))
                 THEN <<method1>> ELSE <<>>
        second == IF Truthy(method2) /\ Truthy(strip(method2))
                  THEN <<method2>> ELSE <<>>
    IN second \o first

methods_to_list(method1, method2) ==
    LET first == IF Truthy(method1) /\ Truthy(strip(method1))
                 THEN <<method1>> ELSE <<>>
        second == IF Truthy(method2) /\ Truthy(strip(method2))
                  THEN <<method2>> ELSE <<>>
    IN first \o second

\* mutant: the separator is left out
RECURSIVE join_unseparated(_, _)
join_unseparated(sep, list) ==
    IF list = <<>> THEN <<>>
    ELSE list[1] \o join_unseparated(sep, Tail(list))

\* sep.join(list)
RECURSIVE join(_, _)
join(sep, list) ==
    IF list = <<>> THEN <<>>
    ELSE IF Len(list) = 1 THEN list[1]
    ELSE list[1] \o sep \o join(sep, Tail(list))

\* str(b) of a Python bool
str(b) ==
    IF b THEN S_True ELSE S_False

\* d.get(k, default) and "k in d" of a dict
dict_get(d, k, default) ==
    IF k \in DOMAIN d THEN d[k] ELSE default

-----------------------------------------------------------------------------
(* REST calls and handler outcomes *)

PATCH(path, body) ==
    [method |-> "PATCH", path |-> path, body |-> body]

DELETE(path) ==
    [method |-> "DELETE", path |-> path]

GET(path, ignore404) ==
    [method |-> "GET", path |-> path, ignore404 |-> ignore404]

\* status of an invocation that returned nothing
NoStatus ==
    -1

\* a handler that issued the calls cs and returns check_ok of the response
Checked(cs, r) ==
    [calls |-> cs, stdout |-> check_ok(r).stdout, rendered |-> <<>>,
     ret |-> check_ok(r).ret, raised |-> "none"]

\* mutant: the rejection returns 0
Rejected_zero(line) ==
    [calls |-> <<>>, stdout |-> <<line>>, rendered |-> <<>>,
     ret |-> 0, raised |-> "none"]

\* a handler that printed one line and returned 1 before any REST call
Rejected(line) ==
    [calls |-> <<>>, stdout |-> <<line>>, rendered |-> <<>>,
     ret |-> 1, raised |-> "none"]

\* a call that raised before the handler body ran
Raised(exc) ==
    [calls |-> <<>>, stdout |-> <<>>, rendered |-> <<>>,
     ret |-> NoStatus, raised |-> exc]

-----------------------------------------------------------------------------
(* class Handlers: each operator takes the arguments the handler names and *)
(* the response r the transport gives to the handler's REST call           *)

delete_openconfig_aaa_aaa_authentication_failthrough(r) ==
    LET path == aaa_path("authentication/config/openconfig-system-ext:failthrough")
    IN Checked(<<DELETE(path)>>, r)

patch_openconfig_aaa_aaa_authentication_failthrough(option, r) ==
    IF option = S_default
    THEN delete_openconfig_aaa_aaa_authentication_failthrough(r)
    ELSE LET val == option_to_bool(option) IN
         IF val = NoMapping
         THEN Rejected(S_Invalid_option \o option)
         ELSE LET path == aaa_path("authentication/config")
                  body == "openconfig-system:config" :>
                              ("openconfig-system-ext:failthrough" :> val[1])
              IN Checked(<<PATCH(path, body)>>, r)

delete_openconfig_aaa_aaa_authentication_fallback(r) ==
    LET path == aaa_path("authentication/config/openconfig-system-ext:fallback")
    IN Checked(<<DELETE(path)>>, r)

\* mutant: delegates to the delete handler of another attribute
patch_fallback_resets_failthrough(option, r) ==
    IF option = S_default
    THEN delete_openconfig_aaa_aaa_authentication_failthrough(r)
    ELSE LET val == option_to_bool(option) IN
         IF val = NoMapping
         THEN Rejected(S_Invalid_option \o option)
         ELSE LET path == aaa_path("authentication/config")
                  body == "openconfig-system:config" :>
                              ("openconfig-system-ext:fallback" :> val[1])
              IN Checked(<<PATCH(path, body)>>, r)

patch_openconfig_aaa_aaa_authentication_fallback(option, r) ==
    IF option = S_default
    THEN delete_openconfig_aaa_aaa_authentication_fallback(r)
    ELSE LET val == option_to_bool(option) IN
         IF val = NoMapping
         THEN Rejected(S_Invalid_option \o option)
         ELSE LET path == aaa_path("authentication/config")
                  body == "openconfig-system:config" :>
                              ("openconfig-system-ext:fallback" :> val[1])
              IN Checked(<<PATCH(path, body)>>, r)

delete_openconfig_aaa_aaa_authentication_debug(r) ==
    LET path == aaa_path("authentication/config/openconfig-system-ext:debug")
    IN Checked(<<DELETE(path)>>, r)

\* mutant: no "default" sentinel, the keyword is an invalid option
patch_debug_no_sentinel(option, r) ==
    LET val == option_to_bool(option) IN
    IF val = NoMapping
    THEN Rejected(S_Invalid_option \o option)
    ELSE LET path == aaa_path("authentication/config")
             body == "openconfig-system:config" :>
                         ("openconfig-system-ext:debug" :> val[1])
         IN Checked(<<PATCH(path, body)>>, r)

patch_openconfig_aaa_aaa_authentication_debug(option, r) ==
    IF option = S_default
    THEN delete_openconfig_aaa_aaa_authentication_debug(r)
    ELSE LET val == option_to_bool(option) IN
         IF val = NoMapping
         THEN Rejected(S_Invalid_option \o option)
         ELSE LET path == aaa_path("authentication/config")
                  body == "openconfig-system:config" :>
                              ("openconfig-system-ext:debug" :> val[1])
              IN Checked(<<PATCH(path, body)>>, r)

delete_openconfig_aaa_aaa_authentication_trace(r) ==
    LET path == aaa_path("authentication/config/openconfig-system-ext:trace")
    IN Checked(<<DELETE(path)>>, r)

\* mutant: "default" first PATCHes false and then delegates, two calls
patch_trace_two_calls(option, r) ==
    IF option = S_default
    THEN LET path == aaa_path("authentication/config")
             body == "openconfig-system:config" :>
                         ("openconfig-system-ext:trace" :> FALSE)
             del == delete_openconfig_aaa_aaa_authentication_trace(r)
         IN [del EXCEPT !.calls = <<PATCH(path, body)>> \o del.calls]
    ELSE LET val == option_to_bool(option) IN
         IF val = NoMapping
         THEN Rejected(S_Invalid_option \o option)
         ELSE LET path == aaa_path("authentication/config")
                  body == "openconfig-system:config" :>
                              ("openconfig-system-ext:trace" :> val[1])
              IN Checked(<<PATCH(path, body)>>, r)

patch_openconfig_aaa_aaa_authentication_trace(option, r) ==
    IF option = S_default
    THEN delete_openconfig_aaa_aaa_authentication_trace(r)
    ELSE LET val == option_to_bool(option) IN
         IF val = NoMapping
         THEN Rejected(S_Invalid_option \o option)
         ELSE LET path == aaa_path("authentication/config")
                  body == "openconfig-system:config" :>
                              ("openconfig-system-ext:trace" :> val[1])
              IN Checked(<<PATCH(path, body)>>, r)

delete_openconfig_aaa_aaa_authentication_login(r) ==
    LET path == aaa_path("authentication/config/authentication-method")
    IN Checked(<<DELETE(path)>>, r)

patch_openconfig_aaa_aaa_authentication_login(method1, method2, r) ==
    LET methods == methods_to_list(method1, method2) IN
    IF methods = <<>>
    THEN Rejected(S_authentication_required)
    ELSE LET path == aaa_path("authentication/config")
             body == "openconfig-system:config" :>
                         ("authentication-method" :> methods)
         IN Checked(<<PATCH(path, body)>>, r)

delete_openconfig_aaa_aaa_authorization_login(r) ==
    LET path == aaa_path("authorization/config/authorization-method")
    IN Checked(<<DELETE(path)>>, r)

\* mutant: the emptiness test dropped, an empty list is sent
patch_authorization_login_unchecked(method1, method2, r) ==
    LET methods == methods_to_list(method1, method2)
        path == aaa_path("authorization/config")
        body == "openconfig-system:config" :>
                    ("authorization-method" :> methods)
    IN Checked(<<PATCH(path, body)>>, r)

patch_openconfig_aaa_aaa_authorization_login(method1, method2, r) ==
    LET methods == methods_to_list(method1, method2) IN
    IF methods = <<>>
    THEN Rejected(S_authorization_required)
    ELSE LET path == aaa_path("authorization/config")
             body == "openconfig-system:config" :>
                         ("authorization-method" :> methods)
         IN Checked(<<PATCH(path, body)>>, r)

\* mutant: the DELETE goes to the config container of the branch
delete_accounting_login_container(r) ==
    LET path == aaa_path("accounting/config")
    IN Checked(<<DELETE(path)>>, r)

delete_openconfig_aaa_aaa_accounting_login(r) ==
    LET path == aaa_path("accounting/config/accounting-method")
    IN Checked(<<DELETE(path)>>, r)

\* mutant: "disable" is a sentinel in either position
patch_accounting_login_any_disable(method1, method2, r) ==
    IF method1 = S_disable \/ method2 = S_disable
    THEN delete_openconfig_aaa_aaa_accounting_login(r)
    ELSE LET methods == methods_to_list(method1, method2) IN
         IF methods = <<>>
         THEN Rejected(S_accounting_required)
         ELSE LET path == aaa_path("accounting/config")
                  body == "openconfig-system:config" :>
                              ("accounting-method" :> methods)
              IN Checked(<<PATCH(path, body)>>, r)

\* mutant: no "disable" sentinel, the keyword is sent as a method name
patch_accounting_login_no_sentinel(method1, method2, r) ==
    LET methods == methods_to_list(method1, method2) IN
    IF methods = <<>>
    THEN Rejected(S_accounting_required)
    ELSE LET path == aaa_path("accounting/config")
             body == "openconfig-system:config" :>
                         ("accounting-method" :> methods)
         IN Checked(<<PATCH(path, body)>>, r)

patch_openconfig_aaa_aaa_accounting_login(method1, method2, r) ==
    IF method1 = S_disable
    THEN delete_openconfig_aaa_aaa_accounting_login(r)
    ELSE LET methods == methods_to_list(method1, method2) IN
         IF methods = <<>>
         THEN Rejected(S_accounting_required)
         ELSE LET path == aaa_path("accounting/config")
                  body == "openconfig-system:config" :>
                              ("accounting-method" :> methods)
              IN Checked(<<PATCH(path, body)>>, r)

\* the Display Record before the response is merged into it
DefaultRecord ==
    [authentication |-> [login |-> S_local_default,
                         failthrough |-> S_False_default,
                         fallback |-> S_False_default,
                         debug |-> S_False_default,
                         trace |-> S_False_default],
     authorization |-> [login |-> S_local_default],
     accounting |-> [login |-> S_disable_default]]

\* "if resp.content": None and {} are falsy
ContentTruthy(content) ==
    content # NoContent /\ DOMAIN content # {}

\* a login field: overwritten when the key is in the config and its list is
\* truthy (non-empty)
LoginField(config, key, default) ==
    IF key \in DOMAIN config
    THEN LET methods == config[key] IN
         IF methods # <<>> THEN join(S_comma, methods) ELSE default
    ELSE default

\* mutant: the flag is tested for truth like the lists, false shows the default
FlagField_truthy(config, key, default) ==
    IF key \in DOMAIN config /\ config[key]
    THEN str(config[key])
    ELSE default

\* a flag field: overwritten when the key is in the config
FlagField(config, key, default) ==
    IF key \in DOMAIN config THEN str(config[key]) ELSE default

\* the Display Record built from a truthy resp.content
ParseContent(content) ==
    LET data == dict_get(content, "openconfig-system:aaa", EmptyDict)
        auth_config ==
            dict_get(dict_get(data, "authentication", EmptyDict),
                     "config", EmptyDict)
        authz_config ==
            dict_get(dict_get(data, "authorization", EmptyDict),
                     "config", EmptyDict)
        acct_config ==
            dict_get(dict_get(data, "accounting", EmptyDict),
                     "config", EmptyDict)
        d == DefaultRecord
    IN [authentication |->
            [login |-> LoginField(auth_config, "authentication-method",
                                  d.authentication.login),
             failthrough |-> FlagField(auth_config,
                                  "openconfig-system-ext:failthrough",
                                  d.authentication.failthrough),
             fallback |-> FlagField(auth_config,
                                  "openconfig-system-ext:fallback",
                                  d.authentication.fallback),
             debug |-> FlagField(auth_config,
                                  "openconfig-system-ext:debug",
                                  d.authentication.debug),
             trace |-> FlagField(auth_config,
                                  "openconfig-system-ext:trace",
                                  d.authentication.trace)],
        authorization |->
            [login |-> LoginField(authz_config, "authorization-method",
                                  d.authorization.login)],
        accounting |->
            [login |-> LoginField(acct_config, "accounting-method",
                                  d.accounting.login)]]

\* mutant: nothing is rendered when the response has no content
get_openconfig_aaa_aaa_skips_empty(template, r) ==
    IF ~r.ok
    THEN [calls |-> <<GET(AAA_PATH, TRUE)>>, stdout |-> <<r.error_message>>,
          rendered |-> <<>>, ret |-> 1, raised |-> "none"]
    ELSE IF ~ContentTruthy(r.content)
    THEN [calls |-> <<GET(AAA_PATH, TRUE)>>, stdout |-> <<>>,
          rendered |-> <<>>, ret |-> 0, raised |-> "none"]
    ELSE [calls |-> <<GET(AAA_PATH, TRUE)>>, stdout |-> <<>>,
          rendered |-> <<[template |-> template,
                          data |-> ParseContent(r.content)]>>,
          ret |-> 0, raised |-> "none"]

\* mutant: resp.ok() is not tested, a failed GET is rendered as defaults
get_openconfig_aaa_aaa_unchecked(template, r) ==
    LET aaa_data == IF ContentTruthy(r.content)
                    THEN ParseContent(r.content)
                    ELSE DefaultRecord
    IN [calls |-> <<GET(AAA_PATH, TRUE)>>, stdout |-> <<>>,
        rendered |-> <<[template |-> template, data |-> aaa_data]>>,
        ret |-> 0, raised |-> "none"]

get_openconfig_aaa_aaa(template, r) ==
    IF ~r.ok
    THEN [calls |-> <<GET(AAA_PATH, TRUE)>>, stdout |-> <<r.error_message>>,
          rendered |-> <<>>, ret |-> 1, raised |-> "none"]
    ELSE LET aaa_data == IF ContentTruthy(r.content)
                         THEN ParseContent(r.content)
                         ELSE DefaultRecord
         IN [calls |-> <<GET(AAA_PATH, TRUE)>>, stdout |-> <<>>,
             rendered |-> <<[template |-> template, data |-> aaa_data]>>,
             ret |-> 0, raised |-> "none"]

\* the attributes of class Handlers
HandlerNames ==
    {"patch_openconfig_aaa_aaa_authentication_failthrough",
     "delete_openconfig_aaa_aaa_authentication_failthrough",
     "patch_openconfig_aaa_aaa_authentication_fallback",
     "delete_openconfig_aaa_aaa_authentication_fallback",
     "patch_openconfig_aaa_aaa_authentication_debug",
     "delete_openconfig_aaa_aaa_authentication_debug",
     "patch_openconfig_aaa_aaa_authentication_trace",
     "delete_openconfig_aaa_aaa_authentication_trace",
     "patch_openconfig_aaa_aaa_authentication_login",
     "delete_openconfig_aaa_aaa_authentication_login",
     "patch_openconfig_aaa_aaa_authorization_login",
     "delete_openconfig_aaa_aaa_authorization_login",
     "patch_openconfig_aaa_aaa_accounting_login",
     "delete_openconfig_aaa_aaa_accounting_login",
     "get_openconfig_aaa_aaa"}

\* mutant: getattr with a default, an unknown name runs the get handler
Handlers_getattr_default(name) ==
    IF name \in HandlerNames THEN name ELSE "get_openconfig_aaa_aaa"

\* getattr(Handlers, func): the attribute of that name, AttributeError when
\* the class has none
Handlers_getattr(name) ==
    IF name \in HandlerNames THEN name ELSE "AttributeError"

\* handler(*args): the elements of a are bound in order to the parameters
\* the handler names, the rest goes to *args; a handler (option, *args),
\* (template, *args) or (method1, method2=None, *args) called with no
\* argument raises TypeError; method2 is None when not supplied
Call(h, a, r) ==
    CASE h = "patch_openconfig_aaa_aaa_authentication_failthrough" ->
             IF Len(a) < 1 THEN Raised("TypeError")
             ELSE patch_openconfig_aaa_aaa_authentication_failthrough(a[1], r)
      [] h = "delete_openconfig_aaa_aaa_authentication_failthrough" ->
             delete_openconfig_aaa_aaa_authentication_failthrough(r)
      [] h = "patch_openconfig_aaa_aaa_authentication_fallback" ->
             IF Len(a) < 1 THEN Raised("TypeError")
             ELSE patch_openconfig_aaa_aaa_authentication_fallback(a[1], r)
      [] h = "delete_openconfig_aaa_aaa_authentication_fallback" ->
             delete_openconfig_aaa_aaa_authentication_fallback(r)
      [] h = "patch_openconfig_aaa_aaa_authentication_debug" ->
             IF Len(a) < 1 THEN Raised("TypeError")
             ELSE patch_openconfig_aaa_aaa_authentication_debug(a[1], r)
      [] h = "delete_openconfig_aaa_aaa_authentication_debug" ->
             delete_openconfig_aaa_aaa_authentication_debug(r)
      [] h = "patch_openconfig_aaa_aaa_authentication_trace" ->
             IF Len(a) < 1 THEN Raised("TypeError")
             ELSE patch_openconfig_aaa_aaa_authentication_trace(a[1], r)
      [] h = "delete_openconfig_aaa_aaa_authentication_trace" ->
             delete_openconfig_aaa_aaa_authentication_trace(r)
      [] h = "patch_openconfig_aaa_aaa_authentication_login" ->
             IF Len(a) < 1 THEN Raised("TypeError")
             ELSE patch_openconfig_aaa_aaa_authentication_login(a[1],
                      IF Len(a) >= 2 THEN a[2] ELSE None, r)
      [] h = "delete_openconfig_aaa_aaa_authentication_login" ->
             delete_openconfig_aaa_aaa_authentication_login(r)
      [] h = "patch_openconfig_aaa_aaa_authorization_login" ->
             IF Len(a) < 1 THEN Raised("TypeError")
             ELSE patch_openconfig_aaa_aaa_authorization_login(a[1],
                      IF Len(a) >= 2 THEN a[2] ELSE None, r)
      [] h = "delete_openconfig_aaa_aaa_authorization_login" ->
             delete_openconfig_aaa_aaa_authorization_login(r)
      [] h = "patch_openconfig_aaa_aaa_accounting_login" ->
             IF Len(a) < 1 THEN Raised("TypeError")
             ELSE patch_openconfig_aaa_aaa_accounting_login(a[1],
                      IF Len(a) >= 2 THEN a[2] ELSE None, r)
      [] h = "delete_openconfig_aaa_aaa_accounting_login" ->
             delete_openconfig_aaa_aaa_accounting_login(r)
      [] h = "get_openconfig_aaa_aaa" ->
             IF Len(a) < 1 THEN Raised("TypeError")
             ELSE get_openconfig_aaa_aaa(a[1], r)
      [] OTHER -> Raised(h)

\* run(func, args) with r the response of the transport
run(name, a, r) ==
    Call(Handlers_getattr(name), a, r)

\* the process run as __main__ discards the value run returns and ends
\* with status 0, or with status 1 when an exception leaves run
ProcessExit(out) ==
    IF out.raised # "none" THEN 1 ELSE 0

-----------------------------------------------------------------------------
(* Inputs: argument lists and transport responses *)

SeqsUpTo(S, n) ==
    UNION {[1..k -> S] : k \in 0..n}

\* whitespace-only strings
Blanks ==
    SeqsUpTo({" ", "\t"}, MaxBlank) \ {<<>>}

\* arguments a handler does not name
Extras ==
    SeqsUpTo({S_extra}, MaxExtra)

Options ==
    {S_enable, S_disable, S_default, S_Enable, S_garbage, <<>>} \cup Blanks

MethodArgs ==
    {None, <<>>, S_tacacs, S_local, S_padded_local, S_disable, S_default}
        \cup Blanks

BoolArgLists ==
    {<<>>} \cup {<<o>> \o e : o \in Options, e \in Extras}

LoginArgLists ==
    {<<>>} \cup {<<m>> : m \in MethodArgs}
           \cup {<<m1, m2>> \o e : m1 \in MethodArgs, m2 \in MethodArgs,
                                   e \in Extras}

DeleteArgLists ==
    Extras \cup {<<S_default>> \o e : e \in Extras}

Templates ==
    {S_template, S_template2}

GetArgLists ==
    {<<>>} \cup {<<t>> \o e : t \in Templates, e \in Extras}

ErrorMessages ==
    {S_Test_error, S_timeout}

\* responses to PATCH and DELETE
Responses ==
    [ok : BOOLEAN, error_message : ErrorMessages]

\* method lists the store may return
RespLists ==
    SeqsUpTo({S_tacacs, S_local}, MaxRespList)

\* a dict with the key k bound to one of vals, or without the key
OptField(k, vals) ==
    {EmptyDict} \cup {k :> v : v \in vals}

AuthConfigs ==
    {m @@ ft @@ fb @@ dbg @@ tr :
        m \in OptField("authentication-method", RespLists),
        ft \in OptField("openconfig-system-ext:failthrough", BOOLEAN),
        fb \in OptField("openconfig-system-ext:fallback", BOOLEAN),
        dbg \in OptField("openconfig-system-ext:debug", BOOLEAN),
        tr \in OptField("openconfig-system-ext:trace", BOOLEAN)}

\* a branch of the tree: with or without its config node
Branches(configs) ==
    OptField("config", configs)

\* method lists of the authorization and accounting branches
FewLists ==
    {<<>>, <<S_local>>, <<S_tacacs, S_local>>}

AaaTrees ==
    {a @@ z @@ c :
        a \in OptField("authentication", Branches(AuthConfigs)),
        z \in OptField("authorization",
                 Branches(OptField("authorization-method", FewLists))),
        c \in OptField("accounting",
                 Branches(OptField("accounting-method", FewLists)))}

\* resp.content of a GET: None, {}, a dict without the aaa root, or a tree
Contents ==
    {NoContent, EmptyDict, "openconfig-system:system" :> EmptyDict}
        \cup {"openconfig-system:aaa" :> t : t \in AaaTrees}

\* responses to GET
GetResponses ==
    {[ok |-> TRUE, error_message |-> m, content |-> c] :
        m \in {S_Test_error}, c \in Contents}
    \cup {[ok |-> FALSE, error_message |-> m, content |-> NoContent] :
        m \in ErrorMessages}

-----------------------------------------------------------------------------
(* The REST store behind the transport: it applies an accepted PATCH by
   merging the fields of the config body into the container at the path, an
   accepted DELETE by removing the attribute at the path, and answers a GET
   of the AAA root with the tree of what it holds *)

\* invocations made against the store in one behaviour
MaxOps ==
    2

StoreRoot ==
    "/restconf/data/openconfig-system:system/aaa"

\* the attributes of the store's schema, by container and field
StoreFields ==
    [authentication |-> {"authentication-method",
                         "openconfig-system-ext:failthrough",
                         "openconfig-system-ext:fallback",
                         "openconfig-system-ext:debug",
                         "openconfig-system-ext:trace"},
     authorization |-> {"authorization-method"},
     accounting |-> {"accounting-method"}]

StoreContainer(branch) ==
    StoreRoot \o "/" \o branch \o "/config"

StoreLeaf(branch, field) ==
    StoreContainer(branch) \o "/" \o field

StorePaths ==
    UNION {{StoreLeaf(b, f) : f \in StoreFields[b]} :
               b \in DOMAIN StoreFields}

EmptyStore ==
    [p \in StorePaths |-> <<>>]

\* PATCH: every field of the config body that the container at the path has
\* is overwritten, the other attributes are kept
Store_patch(s, c) ==
    LET cfg == c.body["openconfig-system:config"]
    IN [p \in StorePaths |->
           IF \E k \in DOMAIN cfg : p = c.path \o "/" \o k
           THEN <<cfg[CHOOSE k \in DOMAIN cfg : p = c.path \o "/" \o k]>>
           ELSE s[p]]

\* DELETE: the attribute at the path is removed, the others are kept
Store_delete(s, c) ==
    [p \in StorePaths |-> IF p = c.path THEN <<>> ELSE s[p]]

Store_apply(s, c) ==
    CASE c.method = "PATCH" -> Store_patch(s, c)
      [] c.method = "DELETE" -> Store_delete(s, c)
      [] OTHER -> s

RECURSIVE Store_apply_all(_, _)
Store_apply_all(s, cs) ==
    IF cs = <<>> THEN s
    ELSE Store_apply_all(Store_apply(s, Head(cs)), Tail(cs))

RECURSIVE Store_config(_, _, _)
\* the config node of a branch: the fields of fs that are stored
Store_config(s, branch, fs) ==
    IF fs = {} THEN EmptyDict
    ELSE LET f == CHOOSE x \in fs : TRUE
             rest == Store_config(s, branch, fs \ {f})
             cell == s[StoreLeaf(branch, f)]
         IN IF cell = <<>> THEN rest ELSE (f :> cell[1]) @@ rest

Store_branch(s, branch) ==
    LET cfg == Store_config(s, branch, StoreFields[branch])
    IN IF DOMAIN cfg = {} THEN EmptyDict ELSE branch :> ("config" :> cfg)

\* the content of a GET of the AAA root: None when nothing is stored
Store_content(s) ==
    LET tree == Store_branch(s, "authentication")
                    @@ Store_branch(s, "authorization")
                    @@ Store_branch(s, "accounting")
    IN IF DOMAIN tree = {} THEN NoContent
       ELSE "openconfig-system:aaa" :> tree

NoPrev ==
    [func |-> "none", status |-> NoStatus]

-----------------------------------------------------------------------------
(* The process: run(func, args) looks the handler up and calls it *)

Init ==
    /\ func = ""
    /\ args = <<>>
    /\ resp = [ok |-> TRUE, error_message |-> S_Test_error]
    /\ calls = <<>>
    /\ stdout = <<>>
    /\ rendered = <<>>
    /\ status = NoStatus
    /\ raised = "none"
    /\ returned = <<>>
    /\ exit_code = NoStatus
    /\ pc = "ready"
    /\ store = EmptyStore
    /\ ops = 0
    /\ prev = NoPrev

\* run(name, a) with transport response r ends with the outcome out
Invoke(name, a, r, out) ==
    /\ func' = name
    /\ args' = a
    /\ resp' = r
    /\ calls' = out.calls
    /\ stdout' = out.stdout
    /\ rendered' = out.rendered
    /\ status' = out.ret
    /\ raised' = out.raised
    /\ returned' = <<>>
    /\ exit_code' = ProcessExit(out)
    /\ pc' = "exited"
    /\ UNCHANGED <<store, ops, prev>>

Run_patch_openconfig_aaa_aaa_authentication_failthrough ==
    /\ pc = "ready"
    /\ \E a \in BoolArgLists, r \in Responses :
           Invoke("patch_openconfig_aaa_aaa_authentication_failthrough", a, r,
                  run("patch_openconfig_aaa_aaa_authentication_failthrough", a, r))

Run_delete_openconfig_aaa_aaa_authentication_failthrough ==
    /\ pc = "ready"
    /\ \E a \in DeleteArgLists, r \in Responses :
           Invoke("delete_openconfig_aaa_aaa_authentication_failthrough", a, r,
                  run("delete_openconfig_aaa_aaa_authentication_failthrough", a, r))

Run_patch_openconfig_aaa_aaa_authentication_fallback ==
    /\ pc = "ready"
    /\ \E a \in BoolArgLists, r \in Responses :
           Invoke("patch_openconfig_aaa_aaa_authentication_fallback", a, r,
                  run("patch_openconfig_aaa_aaa_authentication_fallback", a, r))

Run_delete_openconfig_aaa_aaa_authentication_fallback ==
    /\ pc = "ready"
    /\ \E a \in DeleteArgLists, r \in Responses :
           Invoke("delete_openconfig_aaa_aaa_authentication_fallback", a, r,
                  run("delete_openconfig_aaa_aaa_authentication_fallback", a, r))

Run_patch_openconfig_aaa_aaa_authentication_debug ==
    /\ pc = "ready"
    /\ \E a \in BoolArgLists, r \in Responses :
           Invoke("patch_openconfig_aaa_aaa_authentication_debug", a, r,
                  run("patch_openconfig_aaa_aaa_authentication_debug", a, r))

Run_delete_openconfig_aaa_aaa_authentication_debug ==
    /\ pc = "ready"
    /\ \E a \in DeleteArgLists, r \in Responses :
           Invoke("delete_openconfig_aaa_aaa_authentication_debug", a, r,
                  run("delete_openconfig_aaa_aaa_authentication_debug", a, r))

Run_patch_openconfig_aaa_aaa_authentication_trace ==
    /\ pc = "ready"
    /\ \E a \in BoolArgLists, r \in Responses :
           Invoke("patch_openconfig_aaa_aaa_authentication_trace", a, r,
                  run("patch_openconfig_aaa_aaa_authentication_trace", a, r))

Run_delete_openconfig_aaa_aaa_authentication_trace ==
    /\ pc = "ready"
    /\ \E a \in DeleteArgLists, r \in Responses :
           Invoke("delete_openconfig_aaa_aaa_authentication_trace", a, r,
                  run("delete_openconfig_aaa_aaa_authentication_trace", a, r))

Run_patch_openconfig_aaa_aaa_authentication_login ==
    /\ pc = "ready"
    /\ \E a \in LoginArgLists, r \in Responses :
           Invoke("patch_openconfig_aaa_aaa_authentication_login", a, r,
                  run("patch_openconfig_aaa_aaa_authentication_login", a, r))

Run_delete_openconfig_aaa_aaa_authentication_login ==
    /\ pc = "ready"
    /\ \E a \in DeleteArgLists, r \in Responses :
           Invoke("delete_openconfig_aaa_aaa_authentication_login", a, r,
                  run("delete_openconfig_aaa_aaa_authentication_login", a, r))

Run_patch_openconfig_aaa_aaa_authorization_login ==
    /\ pc = "ready"
    /\ \E a \in LoginArgLists, r \in Responses :
           Invoke("patch_openconfig_aaa_aaa_authorization_login", a, r,
                  run("patch_openconfig_aaa_aaa_authorization_login", a, r))

Run_delete_openconfig_aaa_aaa_authorization_login ==
    /\ pc = "ready"
    /\ \E a \in DeleteArgLists, r \in Responses :
           Invoke("delete_openconfig_aaa_aaa_authorization_login", a, r,
                  run("delete_openconfig_aaa_aaa_authorization_login", a, r))

Run_patch_openconfig_aaa_aaa_accounting_login ==
    /\ pc = "ready"
    /\ \E a \in LoginArgLists, r \in Responses :
           Invoke("patch_openconfig_aaa_aaa_accounting_login", a, r,
                  run("patch_openconfig_aaa_aaa_accounting_login", a, r))

Run_delete_openconfig_aaa_aaa_accounting_login ==
    /\ pc = "ready"
    /\ \E a \in DeleteArgLists, r \in Responses :
           Invoke("delete_openconfig_aaa_aaa_accounting_login", a, r,
                  run("delete_openconfig_aaa_aaa_accounting_login", a, r))

Run_get_openconfig_aaa_aaa ==
    /\ pc = "ready"
    /\ \E a \in GetArgLists, r \in GetResponses :
           Invoke("get_openconfig_aaa_aaa", a, r,
                  run("get_openconfig_aaa_aaa", a, r))

\* getattr(Handlers, func) fails for a name that is no attribute
UnknownNames ==
    {"patch_openconfig_aaa_aaa_authentication", "show_aaa"}

Run_unknown ==
    /\ pc = "ready"
    /\ \E name \in UnknownNames, a \in DeleteArgLists, r \in Responses :
           /\ name \notin HandlerNames
           /\ Invoke(name, a, r, run(name, a, r))

\* methods_to_list(method1, method2=None) called directly
MethodsArgLists ==
    {<<m>> : m \in MethodArgs}
        \cup {<<m1, m2>> : m1 \in MethodArgs, m2 \in MethodArgs}

Call_methods_to_list ==
    /\ pc = "ready"
    /\ \E a \in MethodsArgLists :
           /\ func' = "methods_to_list"
           /\ args' = a
           /\ returned' = methods_to_list(a[1],
                              IF Len(a) >= 2 THEN a[2] ELSE None)
           /\ pc' = "exited"
           /\ UNCHANGED <<resp, calls, stdout, rendered, status, raised,
                          exit_code, store, ops, prev>>

Next ==
    \/ Run_patch_openconfig_aaa_aaa_authentication_failthrough
    \/ Run_delete_openconfig_aaa_aaa_authentication_failthrough
    \/ Run_patch_openconfig_aaa_aaa_authentication_fallback
    \/ Run_delete_openconfig_aaa_aaa_authentication_fallback
    \/ Run_patch_openconfig_aaa_aaa_authentication_debug
    \/ Run_delete_openconfig_aaa_aaa_authentication_debug
    \/ Run_patch_openconfig_aaa_aaa_authentication_trace
    \/ Run_delete_openconfig_aaa_aaa_authentication_trace
    \/ Run_patch_openconfig_aaa_aaa_authentication_login
    \/ Run_delete_openconfig_aaa_aaa_authentication_login
    \/ Run_patch_openconfig_aaa_aaa_authorization_login
    \/ Run_delete_openconfig_aaa_aaa_authorization_login
    \/ Run_patch_openconfig_aaa_aaa_accounting_login
    \/ Run_delete_openconfig_aaa_aaa_accounting_login
    \/ Run_get_openconfig_aaa_aaa
    \/ Run_unknown
    \/ Call_methods_to_list

Spec ==
    Init /\ [][Next]_vars

-----------------------------------------------------------------------------
(* Invocations one after another against the store: each is a process of its
   own, the store is all that lasts from one to the next *)

FlagSetters ==
    {"patch_openconfig_aaa_aaa_authentication_failthrough",
     "patch_openconfig_aaa_aaa_authentication_fallback",
     "patch_openconfig_aaa_aaa_authentication_debug",
     "patch_openconfig_aaa_aaa_authentication_trace"}

LoginSetters ==
    {"patch_openconfig_aaa_aaa_authentication_login",
     "patch_openconfig_aaa_aaa_authorization_login",
     "patch_openconfig_aaa_aaa_accounting_login"}

Deleters ==
    {"delete_openconfig_aaa_aaa_authentication_failthrough",
     "delete_openconfig_aaa_aaa_authentication_fallback",
     "delete_openconfig_aaa_aaa_authentication_debug",
     "delete_openconfig_aaa_aaa_authentication_trace",
     "delete_openconfig_aaa_aaa_authentication_login",
     "delete_openconfig_aaa_aaa_authorization_login",
     "delete_openconfig_aaa_aaa_accounting_login"}

StoreOptions ==
    {S_enable, S_disable, S_default, S_garbage}

StoreLoginArgLists ==
    {<<S_local>>, <<S_tacacs, S_local>>, <<S_padded_local, <<" ">>>>,
     <<S_disable>>, <<<<>>, None>>}

StoreDeleteArgLists ==
    {<<>>, <<S_default>>}

\* a store with every attribute set
FullStore ==
    [p \in StorePaths |->
        IF p \in {StoreLeaf(b, b \o "-method") : b \in DOMAIN StoreFields}
        THEN <<<<S_tacacs>>>>
        ELSE <<TRUE>>]

\* the states the store may be in before the first invocation
InitStores ==
    {EmptyStore, FullStore,
     [FullStore EXCEPT
         ![StoreLeaf("authentication", "openconfig-system-ext:debug")] = <<>>,
         ![StoreLeaf("authentication", "openconfig-system-ext:trace")] =
             <<FALSE>>,
         ![StoreLeaf("authorization", "authorization-method")] = <<>>]}

InitStore ==
    /\ func = ""
    /\ args = <<>>
    /\ resp = [ok |-> TRUE, error_message |-> S_Test_error]
    /\ calls = <<>>
    /\ stdout = <<>>
    /\ rendered = <<>>
    /\ status = NoStatus
    /\ raised = "none"
    /\ returned = <<>>
    /\ exit_code = NoStatus
    /\ pc = "ready"
    /\ store \in InitStores
    /\ ops = 0
    /\ prev = NoPrev

\* run(name, a) as a process of its own; the transport answers ok or not
\* and the store applies the calls of an answer that is ok
StoreInvoke(name, a, r) ==
    LET out == run(name, a, r) IN
    /\ func' = name
    /\ args' = a
    /\ resp' = r
    /\ calls' = out.calls
    /\ stdout' = out.stdout
    /\ rendered' = out.rendered
    /\ status' = out.ret
    /\ raised' = out.raised
    /\ returned' = <<>>
    /\ exit_code' = ProcessExit(out)
    /\ pc' = "exited"
    /\ store' = IF r.ok THEN Store_apply_all(store, out.calls) ELSE store
    /\ ops' = ops + 1
    /\ prev' = [func |-> func, status |-> status]

Store_set_flag ==
    /\ ops < MaxOps
    /\ \E name \in FlagSetters, o \in StoreOptions, ok \in BOOLEAN :
           StoreInvoke(name, <<o>>,
                       [ok |-> ok, error_message |-> S_Test_error])

Store_set_login ==
    /\ ops < MaxOps
    /\ \E name \in LoginSetters, a \in StoreLoginArgLists, ok \in BOOLEAN :
           StoreInvoke(name, a, [ok |-> ok, error_message |-> S_Test_error])

Store_unset ==
    /\ ops < MaxOps
    /\ \E name \in Deleters, a \in StoreDeleteArgLists, ok \in BOOLEAN :
           StoreInvoke(name, a, [ok |-> ok, error_message |-> S_Test_error])

Store_get ==
    /\ ops < MaxOps
    /\ \E ok \in BOOLEAN :
           StoreInvoke("get_openconfig_aaa_aaa", <<S_template>>,
                       [ok |-> ok, error_message |-> S_Test_error,
                        content |-> IF ok THEN Store_content(store)
                                    ELSE NoContent])

NextStore ==
    \/ Store_set_flag
    \/ Store_set_login
    \/ Store_unset
    \/ Store_get

SpecStore ==
    InitStore /\ [][NextStore]_vars

-----------------------------------------------------------------------------
(* Properties *)

BoolAttrs ==
    {"failthrough", "fallback", "debug", "trace"}

Families ==
    {"authentication", "authorization", "accounting"}

PatchBool(X) ==
    "patch_openconfig_aaa_aaa_authentication_" \o X

PatchLogin(F) ==
    "patch_openconfig_aaa_aaa_" \o F \o "_login"

\* the handler named f was called with at least its first argument and left
\* without raising
Ran(f) ==
    pc = "exited" /\ func = f /\ raised = "none" /\ Len(args) >= 1

\* the second positional argument, None when absent
Arg2 ==
    IF Len(args) >= 2 THEN args[2] ELSE None

\* the REST path of a sub-path under the AAA root
UnderRoot(subpath) ==
    Path_join("/restconf/data/openconfig-system:system/aaa", subpath)

FlagKey(X) ==
    "openconfig-system-ext:" \o X

StatusOf(r) ==
    IF r.ok THEN 0 ELSE 1

\* C1: Set(X, "enable"/"disable") issues exactly one PATCH, to
\* authentication/config under the AAA root, whose body is
\* {"openconfig-system:config": {"openconfig-system-ext:X": b}} with b true
\* for "enable" and false for "disable", and returns 0 when the transport
\* reports success.
C1_SetBoolPatches ==
    \A X \in BoolAttrs :
        (Ran(PatchBool(X)) /\ args[1] \in {S_enable, S_disable}) =>
            /\ calls = <<[method |-> "PATCH",
                          path |-> UnderRoot("authentication/config"),
                          body |-> "openconfig-system:config" :>
                                      (FlagKey(X) :> (args[1] = S_enable))]>>
            /\ (resp.ok => status = 0)

C1_Witness ==
    /\ Ran(PatchBool("trace"))
    /\ args[1] = S_disable
    /\ resp.ok
    /\ Len(calls) = 1
    /\ calls[1].method = "PATCH"
    /\ status = 0

\* C2: Set(X, "default") never issues a PATCH; it issues exactly one DELETE
\* at authentication/config/openconfig-system-ext:X and returns the status
\* of that DELETE (0 if the transport reports success, 1 otherwise).
C2_SetBoolDefaultDeletes ==
    \A X \in BoolAttrs :
        (Ran(PatchBool(X)) /\ args[1] = S_default) =>
            /\ calls = <<[method |-> "DELETE",
                          path |-> UnderRoot("authentication/config/"
                                            \o FlagKey(X))]>>
            /\ status = StatusOf(resp)

C2_Witness ==
    /\ Ran(PatchBool("fallback"))
    /\ args[1] = S_default
    /\ ~resp.ok
    /\ Len(calls) = 1
    /\ calls[1].method = "DELETE"
    /\ status = 1

\* b occurs in line at or after the end of an occurrence of a
FollowedBy(line, a, b) ==
    \E i \in 1..(Len(line) + 1), j \in 1..(Len(line) + 1) :
        /\ i + Len(a) <= j
        /\ j + Len(b) - 1 <= Len(line)
        /\ SubSeq(line, i, i + Len(a) - 1) = a
        /\ SubSeq(line, j, j + Len(b) - 1) = b

S_Invalid_option_words ==
    SubSeq(S_Invalid_option, 1, 14)

\* C3: for every option v other than "enable", "disable" and "default"
\* (the empty string and case variants included), Set(X, v) issues no
\* network call, prints a message containing "Invalid option" followed by
\* v, and returns 1.
C3_SetBoolInvalidRejected ==
    \A X \in BoolAttrs :
        (Ran(PatchBool(X)) /\ args[1] \notin {S_enable, S_disable, S_default})
        =>  /\ calls = <<>>
            /\ Len(stdout) = 1
            /\ FollowedBy(stdout[1], S_Invalid_option_words, args[1])
            /\ status = 1

C3_Witness ==
    /\ Ran(PatchBool("debug"))
    /\ args[1] = S_Enable
    /\ calls = <<>>
    /\ stdout = <<S_Invalid_option \o S_Enable>>
    /\ status = 1

\* a string argument that is present and has a character that is no
\* whitespace
NonBlank(s) ==
    /\ s # None
    /\ \E i \in 1..Len(s) : s[i] \notin Whitespace

\* C4: the Method List Builder returns exactly the sub-sequence of
\* [method1, method2] of the candidates that are present and non-empty
\* after trimming whitespace, in input order, so of length 0, 1 or 2;
\* ("tacacs+", "local") gives ["tacacs+", "local"], ("", None) gives [].
C4_MethodListBuilder ==
    (pc = "exited" /\ func = "methods_to_list") =>
        /\ returned = SelectSeq(<<args[1], Arg2>>, NonBlank)
        /\ Len(returned) \in {0, 1, 2}
        /\ (args = <<S_tacacs, S_local>> => returned = <<S_tacacs, S_local>>)
        /\ (args = <<<<>>, None>> => returned = <<>>)

C4_Witness ==
    /\ pc = "exited"
    /\ func = "methods_to_list"
    /\ args = <<<<" ", "\t">>, S_padded_local>>
    /\ returned = <<S_padded_local>>

LoginRequired(F) ==
    CASE F = "authentication" -> S_authentication_required
      [] F = "authorization" -> S_authorization_required
      [] F = "accounting" -> S_accounting_required

\* C5: for each family F, when both method arguments are absent, empty or
\* whitespace-only, Set(F-login) issues no network call, prints "At least
\* one F method is required" and returns 1.
C5_EmptyMethodListRejected ==
    \A F \in Families :
        (Ran(PatchLogin(F)) /\ ~NonBlank(args[1]) /\ ~NonBlank(Arg2)) =>
            /\ calls = <<>>
            /\ stdout = <<LoginRequired(F)>>
            /\ status = 1

C5_Witness ==
    /\ Ran(PatchLogin("accounting"))
    /\ args[1] = <<"\t">>
    /\ Len(args) >= 2
    /\ args[2] = None
    /\ calls = <<>>
    /\ stdout = <<S_accounting_required>>
    /\ status = 1

\* the calls of the last invocation that are PATCHes
Patches ==
    {i \in 1..Len(calls) : calls[i].method = "PATCH"}

\* C6: every PATCH a method-list set handler sends goes to <family>/config,
\* its body is {"openconfig-system:config": {"<family>-method": L}} with no
\* other field, and L has one or two elements, each a non-blank argument of
\* the call, in the caller's argument order.
C6_MethodListPatchNeverEmpty ==
    \A F \in Families :
        (pc = "exited" /\ func = PatchLogin(F)) =>
            \A i \in Patches :
                /\ calls[i].path = UnderRoot(F \o "/config")
                /\ DOMAIN calls[i].body = {"openconfig-system:config"}
                /\ DOMAIN calls[i].body["openconfig-system:config"]
                       = {F \o "-method"}
                /\ LET L == calls[i].body["openconfig-system:config"]
                                [F \o "-method"]
                   IN /\ L # <<>>
                      /\ L \in {<<args[1]>>, <<Arg2>>, <<args[1], Arg2>>}
                      /\ \A k \in 1..Len(L) : NonBlank(L[k])

C6_Witness ==
    /\ Ran(PatchLogin("authorization"))
    /\ args[1] = S_tacacs
    /\ Arg2 = S_local
    /\ Patches = {1}
    /\ calls[1].body["openconfig-system:config"]["authorization-method"]
           = <<S_tacacs, S_local>>

\* C7: Set(accounting-login, "disable", ...) issues no PATCH, whatever the
\* second argument is; it issues exactly one DELETE at
\* accounting/config/accounting-method and returns that DELETE's status.
C7_AccountingDisableDeletes ==
    (Ran(PatchLogin("accounting")) /\ args[1] = S_disable) =>
        /\ calls = <<[method |-> "DELETE",
                      path |-> UnderRoot(
                                   "accounting/config/accounting-method")]>>
        /\ status = StatusOf(resp)

C7_Witness ==
    /\ Ran(PatchLogin("accounting"))
    /\ args[1] = S_disable
    /\ Arg2 = S_local
    /\ Len(calls) = 1
    /\ calls[1].method = "DELETE"
    /\ resp.ok
    /\ status = 0

DeletePath(attr) ==
    CASE attr \in BoolAttrs ->
             UnderRoot("authentication/config/" \o FlagKey(attr))
      [] attr \in Families ->
             UnderRoot(attr \o "/config/" \o attr \o "-method")

\* C8 as stated: for the set handlers of all seven attributes, "default"
\* supplied as the value is mapped to a DELETE of that attribute and no PATCH
\* is sent.
C8_DefaultAlwaysDeletes ==
    /\ \A X \in BoolAttrs :
           (Ran(PatchBool(X)) /\ args[1] = S_default) =>
               /\ Patches = {}
               /\ calls = <<[method |-> "DELETE", path |-> DeletePath(X)]>>
    /\ \A F \in Families :
           (Ran(PatchLogin(F)) /\ args[1] = S_default) =>
               /\ Patches = {}
               /\ calls = <<[method |-> "DELETE", path |-> DeletePath(F)]>>

\* C8 (amended): for the set handlers of the four boolean flags, "default"
\* supplied as the option is mapped to one DELETE of that attribute and no
\* PATCH is sent; the three method-list set handlers have no "default"
\* sentinel: "default" supplied as the first method is sent as the first
\* method name of the handler's PATCH, and no DELETE is issued.
C8_DefaultDeletesFlagsOnly ==
    /\ \A X \in BoolAttrs :
           (Ran(PatchBool(X)) /\ args[1] = S_default) =>
               /\ Patches = {}
               /\ calls = <<[method |-> "DELETE", path |-> DeletePath(X)]>>
    /\ \A F \in Families :
           (Ran(PatchLogin(F)) /\ args[1] = S_default) =>
               /\ Patches = {1}
               /\ Len(calls) = 1
               /\ calls[1].path = UnderRoot(F \o "/config")
               /\ calls[1].body["openconfig-system:config"]
                      [F \o "-method"][1] = S_default

C8_Witness ==
    /\ Ran(PatchLogin("authentication"))
    /\ args = <<S_default>>
    /\ Len(calls) = 1
    /\ calls[1].method = "PATCH"
    /\ calls[1].body["openconfig-system:config"]["authentication-method"]
           = <<S_default>>

SetDeleteHandlers ==
    HandlerNames \ {"get_openconfig_aaa_aaa"}

\* C9: for every set and delete handler that reaches the transport: if the
\* response is not OK the handler prints the transport's error message
\* unchanged, returns 1 and issues no further REST call; if the response is
\* OK it prints nothing and returns 0.
C9_TransportOutcomeMapped ==
    (pc = "exited" /\ func \in SetDeleteHandlers /\ calls # <<>>) =>
        /\ Len(calls) = 1
        /\ resp.ok => (stdout = <<>> /\ status = 0)
        /\ ~resp.ok => (stdout = <<resp.error_message>> /\ status = 1)

C9_Witness ==
    /\ pc = "exited"
    /\ func = "delete_openconfig_aaa_aaa_authorization_login"
    /\ Len(calls) = 1
    /\ ~resp.ok
    /\ resp.error_message = S_timeout
    /\ stdout = <<S_timeout>>
    /\ status = 1

\* the elements of a list with "," between neighbours
RECURSIVE CommaSeparated(_)
CommaSeparated(list) ==
    IF list = <<>> THEN <<>>
    ELSE LET n == Len(list)
             front == CommaSeparated(SubSeq(list, 1, n - 1))
         IN IF n = 1 THEN list[n] ELSE front \o <<",">> \o list[n]

\* the config node of a branch of the last GET response, {} when the
\* response has none
RespConfig(branch) ==
    LET c == resp.content
        root == "openconfig-system:aaa"
    IN IF /\ c # NoContent
          /\ root \in DOMAIN c
          /\ branch \in DOMAIN c[root]
          /\ "config" \in DOMAIN c[root][branch]
       THEN c[root][branch]["config"]
       ELSE EmptyDict

\* a displayed method-list field agrees with the response
ShowsList(field, branch, default) ==
    LET cfg == RespConfig(branch)
        key == branch \o "-method"
    IN /\ (key \in DOMAIN cfg /\ cfg[key] # <<>>) =>
              field = CommaSeparated(cfg[key])
       /\ key \notin DOMAIN cfg => field = default

\* a displayed flag field agrees with the response
ShowsFlag(field, X) ==
    LET cfg == RespConfig("authentication")
    IN /\ FlagKey(X) \in DOMAIN cfg =>
              field = (IF cfg[FlagKey(X)] THEN S_True ELSE S_False)
       /\ FlagKey(X) \notin DOMAIN cfg => field = S_False_default

S_tacacs_local ==
    <<"t", "a", "c", "a", "c", "s", "+", ",", "l", "o", "c", "a", "l">>

\* C10: GetAll on a successful GET produces a Display Record with exactly
\* the seven fixed fields, in which each method-list field is the
\* response's list joined with "," when the list is present and non-empty,
\* each boolean field is "True"/"False" when its key is present, and every
\* field whose key is absent keeps its literal default; e.g.
\* authentication-method = ["tacacs+","local"] and failthrough = true give
\* login "tacacs+,local", failthrough "True", fallback "False (default)".
C10_DisplayRecord ==
    (Ran("get_openconfig_aaa_aaa") /\ resp.ok) =>
        /\ Len(rendered) = 1
        /\ LET rec == rendered[1].data
               authn == rec.authentication
           IN /\ DOMAIN rec = {"authentication", "authorization",
                               "accounting"}
              /\ DOMAIN authn = {"login", "failthrough", "fallback",
                                 "debug", "trace"}
              /\ DOMAIN rec.authorization = {"login"}
              /\ DOMAIN rec.accounting = {"login"}
              /\ ShowsList(authn.login, "authentication", S_local_default)
              /\ ShowsList(rec.authorization.login, "authorization",
                           S_local_default)
              /\ ShowsList(rec.accounting.login, "accounting",
                           S_disable_default)
              /\ \A X \in BoolAttrs : ShowsFlag(authn[X], X)
              /\ LET cfg == RespConfig("authentication")
                 IN (/\ DOMAIN cfg = {"authentication-method",
                                      FlagKey("failthrough")}
                     /\ cfg["authentication-method"] = <<S_tacacs, S_local>>
                     /\ cfg[FlagKey("failthrough")])
                    => /\ authn.login = S_tacacs_local
                       /\ authn.failthrough = S_True
                       /\ authn.fallback = S_False_default

C10_Witness ==
    /\ Ran("get_openconfig_aaa_aaa")
    /\ resp.ok
    /\ DOMAIN RespConfig("authentication")
           = {"authentication-method", FlagKey("failthrough")}
    /\ RespConfig("authentication")["authentication-method"]
           = <<S_tacacs, S_local>>
    /\ RespConfig("authentication")[FlagKey("failthrough")]
    /\ RespConfig("accounting") = "accounting-method" :> <<S_local>>
    /\ Len(rendered) = 1
    /\ rendered[1].data.authentication.login = S_tacacs_local
    /\ rendered[1].data.authentication.failthrough = S_True
    /\ rendered[1].data.authentication.fallback = S_False_default
    /\ rendered[1].data.accounting.login = S_local

\* C11: GetAll treats presence asymmetrically: a flag key present with the
\* value false overwrites the default, so the field shows "False" and not
\* "False (default)"; a method-list key present with an empty list leaves
\* the field at its default string, exactly as if the key were absent.
C11_PresenceAsymmetry ==
    (Ran("get_openconfig_aaa_aaa") /\ resp.ok) =>
        LET rec == rendered[1].data
            authn == RespConfig("authentication")
            authz == RespConfig("authorization")
            acct == RespConfig("accounting")
        IN /\ \A X \in BoolAttrs :
                  (FlagKey(X) \in DOMAIN authn /\ ~authn[FlagKey(X)]) =>
                      /\ rec.authentication[X] = S_False
                      /\ rec.authentication[X] # S_False_default
           /\ ("authentication-method" \in DOMAIN authn
                  /\ authn["authentication-method"] = <<>>) =>
                  rec.authentication.login = S_local_default
           /\ ("authorization-method" \in DOMAIN authz
                  /\ authz["authorization-method"] = <<>>) =>
                  rec.authorization.login = S_local_default
           /\ ("accounting-method" \in DOMAIN acct
                  /\ acct["accounting-method"] = <<>>) =>
                  rec.accounting.login = S_disable_default

C11_Witness ==
    /\ Ran("get_openconfig_aaa_aaa")
    /\ resp.ok
    /\ RespConfig("authentication")
           = ("authentication-method" :> <<>>) @@ (FlagKey("debug") :> FALSE)
    /\ rendered[1].data.authentication.debug = S_False
    /\ rendered[1].data.authentication.login = S_local_default

\* C12: whenever the single GET at the AAA root (issued with the ignore-404
\* flag) is reported OK, GetAll calls the rendering facility exactly once,
\* with the operator-supplied template and the Display Record, and returns
\* 0, for every shape of response content; with absent or empty content
\* every field of the record carries its default.
C12_RendersOnceWhenGetOk ==
    (Ran("get_openconfig_aaa_aaa") /\ resp.ok) =>
        /\ calls = <<[method |-> "GET",
                      path |-> "/restconf/data/openconfig-system:system/aaa",
                      ignore404 |-> TRUE]>>
        /\ Len(rendered) = 1
        /\ rendered[1].template = args[1]
        /\ DOMAIN rendered[1].data
               = {"authentication", "authorization", "accounting"}
        /\ status = 0
        /\ (resp.content = NoContent \/ resp.content = EmptyDict) =>
               rendered[1].data
                   = [authentication |->
                          [login |-> S_local_default,
                           failthrough |-> S_False_default,
                           fallback |-> S_False_default,
                           debug |-> S_False_default,
                           trace |-> S_False_default],
                      authorization |-> [login |-> S_local_default],
                      accounting |-> [login |-> S_disable_default]]

C12_Witness ==
    /\ Ran("get_openconfig_aaa_aaa")
    /\ resp.ok
    /\ resp.content = NoContent
    /\ args[1] = S_template2
    /\ Len(rendered) = 1
    /\ rendered[1].template = S_template2
    /\ rendered[1].data.accounting.login = S_disable_default
    /\ status = 0

\* C13: when the transport reports the GET as failed, GetAll issues no
\* rendering call, prints the transport's error message, returns 1 and
\* issues no further REST call.
C13_GetFailureReported ==
    (Ran("get_openconfig_aaa_aaa") /\ ~resp.ok) =>
        /\ rendered = <<>>
        /\ stdout = <<resp.error_message>>
        /\ status = 1
        /\ Len(calls) = 1
        /\ calls[1].method = "GET"

C13_Witness ==
    /\ Ran("get_openconfig_aaa_aaa")
    /\ ~resp.ok
    /\ resp.error_message = S_timeout
    /\ rendered = <<>>
    /\ stdout = <<S_timeout>>
    /\ status = 1

\* C14: when the program is run as a process with a handler name and
\* arguments, the status returned by the invoked handler becomes the
\* process exit status: 0 when the handler returns 0, 1 when it returns 1.
C14_ExitStatusIsHandlerStatus ==
    (pc = "exited" /\ func \in HandlerNames /\ raised = "none") =>
        exit_code = status

DeleteBool(X) ==
    "delete_openconfig_aaa_aaa_authentication_" \o X

DeleteLogin(F) ==
    "delete_openconfig_aaa_aaa_" \o F \o "_login"

\* the last invocation is a set that delegates to its delete operation
Delegates ==
    \/ \E X \in BoolAttrs : Ran(PatchBool(X)) /\ args[1] = S_default
    \/ Ran(PatchLogin("accounting")) /\ args[1] = S_disable

\* the arguments of the last invocation are valid for its handler, so that
\* the handler goes to the transport
ReachesTransport ==
    \/ \E X \in BoolAttrs :
           /\ func = PatchBool(X)
           /\ args[1] \in {S_enable, S_disable, S_default}
    \/ \E F \in Families :
           /\ func = PatchLogin(F)
           /\ NonBlank(args[1]) \/ NonBlank(Arg2)
    \/ \E X \in BoolAttrs : func = DeleteBool(X)
    \/ \E F \in Families : func = DeleteLogin(F)
    \/ func = "get_openconfig_aaa_aaa"

\* a handler of the class was called with arguments it accepts
Accepted ==
    /\ pc = "exited"
    /\ func \in HandlerNames
    /\ func \notin {DeleteBool(X) : X \in BoolAttrs}
                       \cup {DeleteLogin(F) : F \in Families}
           => Len(args) >= 1

\* C15 as stated: a set invocation that delegates to its delete operation
\* issues two external calls, every other invocation that reaches the
\* transport issues exactly one.
C15_DelegationIssuesTwoCalls ==
    Accepted =>
        /\ Delegates => Len(calls) = 2
        /\ (~Delegates /\ ReachesTransport) => Len(calls) = 1

\* C15 (amended): a set invocation that delegates to its delete operation
\* issues exactly one external call, the DELETE of that operation, and
\* every other invocation that reaches the transport issues exactly one
\* external call as well; an invocation rejected for its arguments issues
\* none.
C15_OneCallPerInvocation ==
    Accepted =>
        /\ Delegates => (Len(calls) = 1 /\ calls[1].method = "DELETE")
        /\ ReachesTransport => Len(calls) = 1
        /\ ~ReachesTransport => Len(calls) = 0

C15_Witness ==
    /\ Accepted
    /\ Delegates
    /\ func = PatchBool("trace")
    /\ Len(calls) = 1
    /\ calls[1].method = "DELETE"

\* C17: for every handler, every argument list it accepts and every
\* transport outcome, the handler ends with a status that is 0 or 1 and
\* raises nothing: 1 exactly when the input was invalid (unmapped option,
\* empty method list) or the transport reported failure, 0 otherwise.
C17_StatusZeroOrOne ==
    Accepted =>
        /\ raised = "none"
        /\ status \in {0, 1}
        /\ status = 1 <=> (~ReachesTransport \/ ~resp.ok)

C17_Witness ==
    /\ Accepted
    /\ func = PatchLogin("authorization")
    /\ args[1] = <<" ">>
    /\ resp.ok
    /\ raised = "none"
    /\ status = 1

\* the attribute a set or delete handler is named after
Touches(attr) ==
    IF attr \in BoolAttrs
    THEN func \in {PatchBool(attr), DeleteBool(attr)}
    ELSE func \in {PatchLogin(attr), DeleteLogin(attr)}

\* the call c is one the set and delete handlers of attr issue, with the
\* arguments of the invocation in their order
CallOn(attr, c) ==
    \/ c = [method |-> "DELETE", path |-> DeletePath(attr)]
    \/ /\ c.method = "PATCH"
       /\ attr \in BoolAttrs
       /\ c.path = UnderRoot("authentication/config")
       /\ c.body = "openconfig-system:config" :>
                       (FlagKey(attr) :> (args[1] = S_enable))
    \/ /\ c.method = "PATCH"
       /\ attr \in Families
       /\ c.path = UnderRoot(attr \o "/config")
       /\ c.body = "openconfig-system:config" :>
                       ((attr \o "-method") :>
                            SelectSeq(<<args[1], Arg2>>, NonBlank))

\* C18: run(func, args) invokes exactly the handler of Handlers whose name
\* equals func, passing the elements of args as positional arguments in
\* their order, invokes no other handler and returns that handler's result
\* unchanged; a func that names no handler is a lookup failure that issues
\* no REST call.
C18_RunDispatchesByName ==
    (pc = "exited" /\ func # "methods_to_list") =>
        /\ func \notin HandlerNames =>
               /\ raised = "AttributeError"
               /\ calls = <<>>
               /\ stdout = <<>>
               /\ rendered = <<>>
               /\ status = NoStatus
        /\ Accepted =>
               /\ raised = "none"
               /\ \A attr \in BoolAttrs \cup Families :
                      Touches(attr) =>
                          /\ \A i \in 1..Len(calls) : CallOn(attr, calls[i])
                          /\ rendered = <<>>
               /\ func = "get_openconfig_aaa_aaa" =>
                      /\ \A i \in 1..Len(calls) : calls[i].method = "GET"
                      /\ \A i \in 1..Len(rendered) :
                             rendered[i].template = args[1]
               /\ status = (IF ReachesTransport /\ resp.ok THEN 0 ELSE 1)

C18_Witness ==
    /\ pc = "exited"
    /\ func = PatchLogin("authentication")
    /\ args = <<S_local, S_tacacs, S_extra>>
    /\ Len(calls) = 1
    /\ calls[1].body["openconfig-system:config"]["authentication-method"]
           = <<S_local, S_tacacs>>
    /\ status = 0

\* the method list of call i of the last invocation, a PATCH of accounting
AccountingList(i) ==
    calls[i].body["openconfig-system:config"]["accounting-method"]

\* C20 as stated: no Set(accounting-login, method1, method2) ever sends a
\* PATCH whose accounting-method list contains "disable", also when
\* "disable" is the second argument or the first argument is blank.
C20_DisableNeverStored ==
    Ran(PatchLogin("accounting")) =>
        \A i \in Patches :
            \A k \in 1..Len(AccountingList(i)) :
                AccountingList(i)[k] # S_disable

\* C20 (amended): Set(accounting-login, method1, method2) with "disable" as
\* the first argument sends no PATCH; "disable" is a sentinel in the first
\* position only: supplied as the second argument after a first argument
\* other than "disable" (a blank one included), it is sent as the last
\* method name of the PATCH's accounting-method list.
C20_DisableSentinelFirstOnly ==
    Ran(PatchLogin("accounting")) =>
        /\ args[1] = S_disable => Patches = {}
        /\ (args[1] # S_disable /\ Arg2 = S_disable) =>
               /\ Patches = {1}
               /\ Len(calls) = 1
               /\ AccountingList(1)[Len(AccountingList(1))] = S_disable
               /\ AccountingList(1)
                      = SelectSeq(<<args[1], S_disable>>, NonBlank)

C20_Witness ==
    /\ Ran(PatchLogin("accounting"))
    /\ args[1] = <<" ">>
    /\ Arg2 = S_disable
    /\ Patches = {1}
    /\ AccountingList(1) = <<S_disable>>

\* the store's attribute named attr
Cell(s, attr) ==
    s[DeletePath(attr)]

\* what the Display Record d shows for the attribute
Shown(d, attr) ==
    IF attr \in BoolAttrs THEN d.authentication[attr] ELSE d[attr].login

\* what GetAll is to display for an attribute the store holds as cell
ShowCell(cell, attr) ==
    IF attr \in BoolAttrs
    THEN IF cell = <<>> THEN S_False_default
         ELSE IF cell[1] THEN S_True ELSE S_False
    ELSE IF cell = <<>> \/ cell[1] = <<>>
         THEN Shown(DefaultRecord, attr)
         ELSE CommaSeparated(cell[1])

\* the step is one invocation against the store
StoreStep ==
    ops' = ops + 1

\* the delete handler of the attribute
DeleteOf(attr) ==
    IF attr \in BoolAttrs THEN DeleteBool(attr) ELSE DeleteLogin(attr)

\* the step is a Delete of the attribute that the transport accepts
DeleteStep(attr) ==
    /\ StoreStep
    /\ func' = DeleteOf(attr)
    /\ resp'.ok

\* C16: Delete(X), for each of the seven attributes, issues its DELETE at
\* X's attribute path whatever its arguments and the state of the store,
\* with no read before it; against a store that applies DELETE by removing
\* the attribute, a Delete(X) right after a successful Delete(X) leaves the
\* store as it was and has the same outcome (status, output, call).
C16_DeleteIdempotent ==
    [][\A attr \in BoolAttrs \cup Families :
           /\ (StoreStep /\ func' = DeleteOf(attr)) =>
                  calls' = <<[method |-> "DELETE",
                              path |-> DeletePath(attr)]>>
           /\ DeleteStep(attr) =>
                  /\ status' = 0
                  /\ Cell(store', attr) = <<>>
                  /\ \A other \in (BoolAttrs \cup Families) \ {attr} :
                         Cell(store', other) = Cell(store, other)
           /\ (DeleteStep(attr) /\ func = func' /\ status = 0) =>
                  /\ store' = store
                  /\ status' = status
                  /\ stdout' = stdout
                  /\ calls' = calls]_vars

C16_Witness ==
    /\ ops = 2
    /\ func = DeleteLogin("authentication")
    /\ args = <<S_default>>
    /\ prev = [func |-> func, status |-> 0]
    /\ status = 0
    /\ Cell(store, "authentication") = <<>>
    /\ Cell(store, "authorization") # <<>>

\* the methods given to a method-list set as they were given, absent and
\* blank ones left out
GivenMethods(a) ==
    SelectSeq(<<a[1], IF Len(a) >= 2 THEN a[2] ELSE None>>, NonBlank)

\* the step is a successful set of a boolean attribute
SetFlagStep(X) ==
    /\ StoreStep
    /\ func' = PatchBool(X)
    /\ status' = 0

\* the step is a successful set of a method-list family
SetLoginStep(F) ==
    /\ StoreStep
    /\ func' = PatchLogin(F)
    /\ status' = 0

\* after the step GetAll is to display shown for attr, and for every other
\* attribute what it was to display before
NowShows(attr, shown) ==
    /\ ShowCell(Cell(store', attr), attr) = shown
    /\ \A other \in (BoolAttrs \cup Families) \ {attr} :
           ShowCell(Cell(store', other), other)
               = ShowCell(Cell(store, other), other)

\* a successful GetAll displays every attribute as the store holds it and
\* leaves the store alone
GetAllShowsStore ==
    (StoreStep /\ func' = "get_openconfig_aaa_aaa" /\ status' = 0) =>
        /\ store' = store
        /\ Len(rendered') = 1
        /\ \A attr \in BoolAttrs \cup Families :
               Shown(rendered'[1].data, attr)
                   = ShowCell(Cell(store, attr), attr)

\* successful sets of flags and deletes move what GetAll is to display
FlagsAndDeletesRoundTrip ==
    /\ \A X \in BoolAttrs :
           SetFlagStep(X) =>
               NowShows(X, CASE args'[1] = S_enable -> S_True
                             [] args'[1] = S_disable -> S_False
                             [] OTHER -> S_False_default)
    /\ \A attr \in BoolAttrs \cup Families :
           DeleteStep(attr) => NowShows(attr, Shown(DefaultRecord, attr))

\* C19 as stated: through a store that applies PATCH by merging and DELETE
\* by removing, from any state of the store, GetAll displays for a boolean
\* attribute "True" after Set "enable", "False" after Set "disable" and
\* "False (default)" after Delete or Set "default"; for each method-list
\* family the methods of the last successful Set joined with "," in the
\* order given, or the family default after a Delete; an operation on one
\* attribute never changes what is displayed for another.
C19_RoundTrip ==
    [][/\ GetAllShowsStore
       /\ FlagsAndDeletesRoundTrip
       /\ \A F \in Families :
              SetLoginStep(F) =>
                  NowShows(F, CommaSeparated(GivenMethods(args')))]_vars

\* C19 (amended): as stated, except that a successful Set of accounting-login
\* whose first argument is "disable" counts as a Delete: after it GetAll
\* displays the accounting default "disable (default)", not the method
\* "disable".
C19_RoundTripDisableIsDelete ==
    [][/\ GetAllShowsStore
       /\ FlagsAndDeletesRoundTrip
       /\ \A F \in Families :
              SetLoginStep(F) =>
                  NowShows(F, IF F = "accounting" /\ args'[1] = S_disable
                              THEN S_disable_default
                              ELSE CommaSeparated(GivenMethods(args')))]_vars

C19_Witness ==
    /\ ops = 2
    /\ prev = [func |-> PatchLogin("authentication"), status |-> 0]
    /\ func = "get_openconfig_aaa_aaa"
    /\ status = 0
    /\ Cell(store, "authentication") = <<<<S_tacacs, S_local>>>>
    /\ Len(rendered) = 1
    /\ rendered[1].data.authentication.login = S_tacacs_local
    /\ rendered[1].data.authentication.debug = S_False_default
    /\ rendered[1].data.authentication.trace = S_False

====
